---- MODULE Spec2Model ----
(***************************************************************************)
(* A model of the solar_system Django application: the Planet table, the   *)
(* populate_enhanced_planets management command, the Planet admin and the  *)
(* JSON API views.                                                         *)
(*                                                                         *)
(* Numbers.  The FloatFields are kept as fixed-point integers:             *)
(*   distance_from_sun      thousandths of an AU                           *)
(*   diameter               kilometres                                     *)
(*   orbital_period         hundredths of a day                            *)
(*   orbital_eccentricity   thousandths                                    *)
(*   rotation_period        hundredths of an hour (sign kept)              *)
(*   axial_tilt             thousandths of a degree                        *)
(*   albedo                 thousandths                                    *)
(*   mass                   a decimal m * 10^e, or NULL                    *)
(* Text.  color_hex is the sequence of its characters; composition is the  *)
(* sequence of the paragraphs the command concatenates; atmosphere and     *)
(* texture_filename are opaque strings standing for the literals.          *)
(***************************************************************************)
EXTENDS Integers, Sequences, FiniteSets, TLC

\* ------------------------------------------------------------------ bounds

\* Number of management-command runs in one behaviour.
MaxRuns == 2

\* Number of admin operations (save_model and bulk actions) in one behaviour.
MaxAdminOps == 1

\* Planet ids requested from the detail endpoint: 1..MaxPlanetId.
MaxPlanetId == 3

\* Scale factors given to get_scaled_size: 10^0 .. 10^MaxScaleExp (and to
\* get_scaled_distance: up to 10^(MaxScaleExp - 2)).
MaxScaleExp == 5

\* ------------------------------------------------------------------ values

\* mass = models.FloatField(null=True): NULL or the decimal m * 10^e.
NoMass == [null |-> TRUE, m |-> 0, e |-> 0]

Dec(m, e) == [null |-> FALSE, m |-> m, e |-> e]

\* The columns of Planet that the seed data dictionaries carry (all but
\* id, created_at and updated_at).
DataFields ==
    { "name", "display_order", "planet_type", "distance_from_sun", "diameter",
      "mass", "orbital_period", "orbital_eccentricity", "rotation_period",
      "axial_tilt", "composition", "atmosphere", "color_hex",
      "texture_filename", "albedo", "is_dwarf_planet", "has_rings",
      "has_moons", "moon_count", "is_active" }

\* Mutant of Body: has_moons is written from moon_count >= 0.
Body_moonflag(name, order, type, dist, diam, mass, operiod, ecc, rot, tilt, comp, atm, color, tex, alb, dwarf, rings, moons, mcount) ==
    [ name |-> name, display_order |-> order, planet_type |-> type,
      distance_from_sun |-> dist, diameter |-> diam, mass |-> mass,
      orbital_period |-> operiod, orbital_eccentricity |-> ecc,
      rotation_period |-> rot, axial_tilt |-> tilt, composition |-> comp,
      atmosphere |-> atm, color_hex |-> color, texture_filename |-> tex,
      albedo |-> alb, is_dwarf_planet |-> dwarf, has_rings |-> rings,
      has_moons |-> (mcount >= 0), moon_count |-> mcount, is_active |-> TRUE ]

\* One seed dictionary, in the order of the keys of the source.
Body(name, order, type, dist, diam, mass, operiod, ecc, rot, tilt, comp, atm, color, tex, alb, dwarf, rings, moons, mcount) ==
    [ name |-> name, display_order |-> order, planet_type |-> type,
      distance_from_sun |-> dist, diameter |-> diam, mass |-> mass,
      orbital_period |-> operiod, orbital_eccentricity |-> ecc,
      rotation_period |-> rot, axial_tilt |-> tilt, composition |-> comp,
      atmosphere |-> atm, color_hex |-> color, texture_filename |-> tex,
      albedo |-> alb, is_dwarf_planet |-> dwarf, has_rings |-> rings,
      has_moons |-> moons, moon_count |-> mcount, is_active |-> TRUE ]

\* ------------------------------------------------------- the seed data set

get_mercury_composition(include_moons) ==
    <<"Mercury: core, mantle, crust, surface features">>
        \o (IF include_moons THEN <<"Mercury: moon system none">> ELSE <<>>)

get_venus_composition(include_moons) ==
    <<"Venus: core, mantle, crust, surface, notable features">>
        \o (IF include_moons THEN <<"Venus: moon system none">> ELSE <<>>)

get_earth_composition(include_moons) ==
    <<"Earth: core, mantle, crust, surface">>
        \o (IF include_moons THEN <<"Earth: moon system the Moon">> ELSE <<>>)

get_mars_composition(include_moons) ==
    <<"Mars: core, mantle, crust, surface">>
        \o (IF include_moons THEN <<"Mars: moon system Phobos, Deimos">> ELSE <<>>)

get_jupiter_composition(include_moons, include_rings) ==
    <<"Jupiter: core, interior, atmosphere, Great Red Spot, zones and belts">>
        \o (IF include_moons THEN <<"Jupiter: major moons">> ELSE <<>>)
        \o (IF include_rings THEN <<"Jupiter: ring system">> ELSE <<>>)

get_saturn_composition(include_moons, include_rings) ==
    <<"Saturn: core, interior, atmosphere, hexagonal storm, equatorial jet">>
        \o (IF include_moons THEN <<"Saturn: major moons">> ELSE <<>>)
        \o (IF include_rings THEN <<"Saturn: ring system">> ELSE <<>>)

get_uranus_composition(include_moons, include_rings) ==
    <<"Uranus: core, mantle, atmosphere, unique rotation, magnetic field">>
        \o (IF include_moons THEN <<"Uranus: major moons">> ELSE <<>>)
        \o (IF include_rings THEN <<"Uranus: ring system">> ELSE <<>>)

get_neptune_composition(include_moons, include_rings) ==
    <<"Neptune: core, mantle, atmosphere, weather, Great Dark Spot, internal heat">>
        \o (IF include_moons THEN <<"Neptune: major moon, minor moons">> ELSE <<>>)
        \o (IF include_rings THEN <<"Neptune: ring system">> ELSE <<>>)

\* include_rings is accepted and never read.
get_pluto_composition(include_moons, include_rings) ==
    <<"Pluto: core, mantle, surface, heart feature, atmosphere">>
        \o (IF include_moons THEN <<"Pluto: moon system">> ELSE <<>>)

\* _get_enhanced_planetary_data: the nine bodies, in list order.
get_enhanced_planetary_data(include_moons, include_rings) ==
    << Body("Mercury", 1, "terrestrial", 387, 4879, Dec(55, -3), 8797, 206,
            140760, 34, get_mercury_composition(include_moons),
            "Mercury atmosphere", <<"#","8","C","7","8","5","3">>,
            "mercury_texture.jpg", 88, FALSE, FALSE, FALSE, 0),
       Body("Venus", 2, "terrestrial", 723, 12104, Dec(815, -3), 22470, 7,
            -583250, 177400, get_venus_composition(include_moons),
            "Venus atmosphere", <<"#","F","C","6","4","9","F">>,
            "venus_texture.jpg", 689, FALSE, FALSE, FALSE, 0),
       Body("Earth", 3, "terrestrial", 1000, 12756, Dec(1, 0), 36525, 17,
            2393, 23440, get_earth_composition(include_moons),
            "Earth atmosphere", <<"#","4","F","9","4","C","D">>,
            "earth_texture.jpg", 367, FALSE, FALSE, TRUE, 1),
       Body("Mars", 4, "terrestrial", 1524, 6792, Dec(107, -3), 68698, 94,
            2462, 25190, get_mars_composition(include_moons),
            "Mars atmosphere", <<"#","C","D","5","C","5","C">>,
            "mars_texture.jpg", 170, FALSE, FALSE, TRUE, 2),
       Body("Jupiter", 5, "gas_giant", 5204, 142984, Dec(3178, -1), 433259, 49,
            993, 3130, get_jupiter_composition(include_moons, include_rings),
            "Jupiter atmosphere", <<"#","D","2","6","9","1","E">>,
            "jupiter_texture.jpg", 538, FALSE, TRUE, TRUE, 95),
       Body("Saturn", 6, "gas_giant", 9537, 120536, Dec(952, -1), 1075922, 57,
            1066, 26730, get_saturn_composition(include_moons, include_rings),
            "Saturn atmosphere", <<"#","F","A","D","5","A","5">>,
            "saturn_texture.jpg", 499, FALSE, TRUE, TRUE, 146),
       Body("Uranus", 7, "ice_giant", 19191, 51118, Dec(145, -1), 3068850, 46,
            -1724, 97770, get_uranus_composition(include_moons, include_rings),
            "Uranus atmosphere", <<"#","4","F","D","0","F","F">>,
            "uranus_texture.jpg", 488, FALSE, TRUE, TRUE, 28),
       Body("Neptune", 8, "ice_giant", 30069, 49528, Dec(171, -1), 6018200, 10,
            1611, 28320, get_neptune_composition(include_moons, include_rings),
            "Neptune atmosphere", <<"#","4","1","6","9","E","1">>,
            "neptune_texture.jpg", 442, FALSE, TRUE, TRUE, 16),
       Body("Pluto", 9, "dwarf_planet", 39482, 2376, Dec(218, -5), 9056000, 244,
            -15330, 119600, get_pluto_composition(include_moons, include_rings),
            "Pluto atmosphere", <<"#","E","E","E","8","A","A">>,
            "pluto_texture.jpg", 490, TRUE, FALSE, TRUE, 5) >>

\* sun_data of _create_enhanced_sun.
sun_data ==
    Body("Sun", 0, "terrestrial", 0, 1392700, Dec(333000, 0), 0, 0,
         60912, 7250, <<"Sun: hydrogen, helium, heavier elements">>,
         "Sun atmosphere", <<"#","F","D","B","8","1","3">>,
         "sun_texture.jpg", 0, FALSE, FALSE, FALSE, 0)

\* The names the command seeds.
CanonicalNames ==
    { get_enhanced_planetary_data(FALSE, FALSE)[i].name : i \in 1..9 } \cup {"Sun"}

\* ---------------------------------- the seed data of populate_planets

\* _get_planetary_data of populate_planets: the nine bodies, in list order.
get_planetary_data ==
    <<
       Body("Mercury", 1, "terrestrial", 387, 4879, Dec(55, -3), 8797, 206,
            140760, 34,
            <<"Iron core (75% of radius), thin silicate mantle, no atmosphere">>,
            "Extremely thin exosphere (oxygen, sodium, hydrogen, helium)",
            <<"#","8","C","7","8","5","3">>, "mercury_texture.jpg", 88, FALSE, FALSE, FALSE, 0),
       Body("Venus", 2, "terrestrial", 723, 12104, Dec(815, -3), 22470, 7,
            -583250, 177400,
            <<"Iron core, rocky mantle, thick atmosphere">>,
            "CO2 (96.5%), N2 (3.5%), extreme greenhouse effect",
            <<"#","F","C","6","4","9","F">>, "venus_texture.jpg", 689, FALSE, FALSE, FALSE, 0),
       Body("Earth", 3, "terrestrial", 1000, 12756, Dec(1, 0), 36525, 17,
            2393, 23440,
            <<"Iron-nickel core, silicate mantle and crust, 71% water surface">>,
            "N2 (78%), O2 (21%), Ar (0.93%), CO2 (0.04%)",
            <<"#","4","F","9","4","C","D">>, "earth_texture.jpg", 367, FALSE, FALSE, TRUE, 1),
       Body("Mars", 4, "terrestrial", 1524, 6792, Dec(107, -3), 68698, 94,
            2462, 25190,
            <<"Iron core, basaltic mantle, iron oxide surface (rust)">>,
            "CO2 (95%), N2 (2.8%), Ar (2%), very thin",
            <<"#","C","D","5","C","5","C">>, "mars_texture.jpg", 170, FALSE, FALSE, TRUE, 2),
       Body("Jupiter", 5, "gas_giant", 5204, 142984, Dec(3178, -1), 433259, 49,
            993, 3130,
            <<"Hydrogen (89%), Helium (10%), traces of methane, ammonia">>,
            "H2, He, CH4, NH3, complex storm systems",
            <<"#","D","2","6","9","1","E">>, "jupiter_texture.jpg", 538, FALSE, TRUE, TRUE, 95),
       Body("Saturn", 6, "gas_giant", 9537, 120536, Dec(952, -1), 1075922, 57,
            1066, 26730,
            <<"Hydrogen (96%), Helium (3%), traces of methane, ammonia">>,
            "H2, He, CH4, NH3, prominent ring system",
            <<"#","F","A","D","5","A","5">>, "saturn_texture.jpg", 499, FALSE, TRUE, TRUE, 146),
       Body("Uranus", 7, "ice_giant", 19191, 51118, Dec(145, -1), 3068850, 46,
            -1724, 97770,
            <<"Water, methane, ammonia ices; hydrogen, helium atmosphere">>,
            "H2 (83%), He (15%), CH4 (2%), gives blue color",
            <<"#","4","F","D","0","F","F">>, "uranus_texture.jpg", 488, FALSE, TRUE, TRUE, 28),
       Body("Neptune", 8, "ice_giant", 30069, 49528, Dec(171, -1), 6018200, 10,
            1611, 28320,
            <<"Water, methane, ammonia ices; hydrogen, helium atmosphere">>,
            "H2 (80%), He (19%), CH4 (1%), strongest winds in solar system",
            <<"#","4","1","6","9","E","1">>, "neptune_texture.jpg", 442, FALSE, TRUE, TRUE, 16),
       Body("Pluto", 9, "dwarf_planet", 39482, 2376, Dec(218, -5), 9056000, 244,
            -15330, 119600,
            <<"Rock and ice, nitrogen-methane atmosphere">>,
            "N2, CH4, CO, very thin",
            <<"#","E","E","E","8","A","A">>, "pluto_texture.jpg", 490, TRUE, FALSE, TRUE, 5) >>

\* sun_data of _create_sun of populate_planets.
create_sun_data ==
    Body("Sun", 0, "terrestrial", 0, 1392700, Dec(333000, 0), 0, 0,
         60912, 7250,
         <<"Hydrogen (73%), Helium (25%), heavier elements (2%)">>,
         "Corona: extremely hot ionized gas",
         <<"#","F","D","B","8","1","3">>, "sun_texture.jpg", 0, FALSE, FALSE, FALSE, 0)

\* ------------------------------------------------------------ the database

VARIABLES
    db,        \* the rows of the Planet table
    nextId,    \* the value the AutoField gives the next inserted row
    clock,     \* the time auto_now / auto_now_add read at the next write
    pc,        \* where the running management command is ("idle": none runs)
    run,       \* the options and local variables of the running command
    last,      \* what the last operation returned, printed or raised
    prev,      \* the outcome of the command run that finished last, while
               \* neither an admin change nor a new run has followed it
    reply,     \* what a read operation is returning to its caller
    runs,      \* command runs started so far
    adminOps   \* admin operations performed so far

vars == <<db, nextId, clock, pc, run, last, prev, reply, runs, adminOps>>

NoReply == [op |-> "none"]

\* The row a seed or form dictionary becomes when it is inserted.
NewRow(data, id, now) ==
    [ id |-> id, name |-> data.name, display_order |-> data.display_order,
      planet_type |-> data.planet_type,
      distance_from_sun |-> data.distance_from_sun, diameter |-> data.diameter,
      mass |-> data.mass, orbital_period |-> data.orbital_period,
      orbital_eccentricity |-> data.orbital_eccentricity,
      rotation_period |-> data.rotation_period, axial_tilt |-> data.axial_tilt,
      composition |-> data.composition, atmosphere |-> data.atmosphere,
      color_hex |-> data.color_hex, texture_filename |-> data.texture_filename,
      albedo |-> data.albedo, is_dwarf_planet |-> data.is_dwarf_planet,
      has_rings |-> data.has_rings, has_moons |-> data.has_moons,
      moon_count |-> data.moon_count, is_active |-> data.is_active,
      created_at |-> now, updated_at |-> now ]

\* Mutant of SetAttrs: the key 'is_active' is skipped.
SetAttrs_keep_active(row, data) ==
    [ f \in DOMAIN row |->
        IF f \in DataFields \ {"is_active"} THEN data[f] ELSE row[f] ]

\* setattr(planet, key, value) for every key of the dictionary.
SetAttrs(row, data) ==
    [ f \in DOMAIN row |-> IF f \in DataFields THEN data[f] ELSE row[f] ]

\* Mutant of UniqueViolation: display_order has lost unique=True.
UniqueViolation_name_only(rows, obj, pk) ==
    \E r \in rows : r.id # pk /\ r.name = obj.name

\* name and display_order are unique=True: the database refuses a row whose
\* name or display_order another row (one with a different pk) holds.
UniqueViolation(rows, obj, pk) ==
    \E r \in rows :
        /\ r.id # pk
        /\ (r.name = obj.name \/ r.display_order = obj.display_order)

\* Mutant of ByName: the lookup never matches (the name is compared in
\* another case).
ByName_nomatch(rows, name) == { r \in rows : r.name = "" /\ name = "" }

\* Planet.objects.filter(name=name)
ByName(rows, name) == { r \in rows : r.name = name }

\* Mutant of Updated: save() writes every column but is_active and the
\* classification flags (an update_fields list that forgot them).
Updated_partial(row, data, now) ==
    [ SetAttrs(row, data) EXCEPT !.updated_at = now,
                                 !.is_active = row.is_active,
                                 !.has_moons = row.has_moons ]

\* The row after setattr(...) for every key and save(): auto_now stamps
\* updated_at, created_at and id stay.
Updated(row, data, now) ==
    [ SetAttrs(row, data) EXCEPT !.updated_at = now ]

\* ------------------------------------------------- populate_enhanced_planets

NoOptions ==
    [ clear |-> FALSE, include_moons |-> FALSE, include_rings |-> FALSE,
      update_existing |-> FALSE ]

\* prev when no finished run can be compared with the next one.  The prior_
\* fields repeat what prev held when the run started.
NoPrev ==
    [ valid |-> FALSE, options |-> NoOptions, error |-> "",
      created_count |-> 0, updated_count |-> 0, sun_created |-> FALSE,
      total_planets |-> 0, prior_valid |-> FALSE, prior_options |-> NoOptions,
      prior_error |-> "", prior_total |-> 0 ]

\* What a starting run remembers of the run finished before it.
Prior(p) ==
    [ valid |-> p.valid, options |-> p.options, error |-> p.error,
      total_planets |-> p.total_planets ]

\* The locals of a run; first_id and started are the next AutoField value
\* and the time when the run began (what it writes has an id or a stamp
\* from there on).
NoRun ==
    [ clear |-> FALSE, include_moons |-> FALSE, include_rings |-> FALSE,
      update_existing |-> FALSE, idx |-> 0, created_count |-> 0,
      updated_count |-> 0, sun_created |-> FALSE, prior |-> Prior(NoPrev),
      first_id |-> 0, started |-> 0 ]

Options(r) ==
    [ clear |-> r.clear, include_moons |-> r.include_moons,
      include_rings |-> r.include_rings, update_existing |-> r.update_existing ]

\* What a finished run leaves in prev.
Finished(r, error, rows) ==
    [ valid |-> TRUE, options |-> Options(r), error |-> error,
      created_count |-> r.created_count, updated_count |-> r.updated_count,
      sun_created |-> r.sun_created, total_planets |-> Cardinality(rows),
      prior_valid |-> r.prior.valid, prior_options |-> r.prior.options,
      prior_error |-> r.prior.error, prior_total |-> r.prior.total_planets ]

\* Mutant of DeleteAll: the clear removes the seeded names only.
DeleteAll_seeded(rows) == { r \in rows : r.name \notin CanonicalNames }

\* Planet.objects.all().delete()
DeleteAll(rows) == {}

\* The <<--include-moons, --include-rings>> pairs the runs are started with:
\* neither option, and each option on its own.
DetailOptions == { <<FALSE, FALSE>>, <<TRUE, FALSE>>, <<FALSE, TRUE>> }

\* Mutant of HandleBegin: the option --clear is read but the delete is not
\* executed before the population.
HandleBegin_noclear(clear, include_moons, include_rings, update_existing) ==
    /\ pc = "idle"
    /\ reply = NoReply
    /\ runs < MaxRuns
    /\ runs' = runs + 1
    /\ db' = db
    /\ run' = [ NoRun EXCEPT !.clear = clear, !.include_moons = include_moons,
                             !.include_rings = include_rings,
                             !.update_existing = update_existing, !.idx = 1,
                             !.prior = Prior(prev),
                             !.first_id = nextId, !.started = clock + 1 ]
    /\ pc' = "planets"
    /\ clock' = clock + 1
    /\ last' = [ op |-> "clear", cleared |-> clear, deleted_count |-> 0 ]
    /\ prev' = NoPrev
    /\ UNCHANGED <<nextId, reply, adminOps>>

\* handle(), up to the try block: read the options, clear when asked.
HandleBegin(clear, include_moons, include_rings, update_existing) ==
    /\ pc = "idle"
    /\ reply = NoReply
    /\ runs < MaxRuns
    /\ runs' = runs + 1
    /\ db' = IF clear THEN DeleteAll(db) ELSE db
    /\ run' = [ NoRun EXCEPT !.clear = clear, !.include_moons = include_moons,
                             !.include_rings = include_rings,
                             !.update_existing = update_existing, !.idx = 1,
                             !.prior = Prior(prev),
                             !.first_id = nextId, !.started = clock + 1 ]
    /\ pc' = "planets"
    /\ clock' = clock + 1
    /\ last' = [ op |-> "clear", cleared |-> clear,
                 deleted_count |-> IF clear THEN Cardinality(db) ELSE 0 ]
    /\ prev' = NoPrev
    /\ UNCHANGED <<nextId, reply, adminOps>>

\* Mutant of Abort: the exception is caught inside the loop and the run
\* goes on with the next body.
Abort_swallow(cause, name) ==
    /\ pc' = IF pc = "sun" THEN "export"
             ELSE IF run.idx = 9 THEN "sun" ELSE "planets"
    /\ run' = IF pc = "sun" THEN run ELSE [ run EXCEPT !.idx = @ + 1 ]
    /\ last' = [ op |-> "get_or_create", name |-> name, action |-> cause ]
    /\ UNCHANGED <<db, nextId, prev>>

\* The exception leaves handle() as one CommandError.
Abort(cause, name) ==
    /\ pc' = "idle"
    /\ run' = NoRun
    /\ last' = [ op |-> "handle", raised |-> "CommandError", cause |-> cause,
                 at |-> name, errors |-> 1 ]
    /\ prev' = Finished(run, "CommandError", db)
    /\ UNCHANGED <<db, nextId>>

\* One iteration of the loop of _populate_enhanced_planets.
PopulateStep ==
    /\ pc = "planets"
    /\ clock' = clock + 1
    /\ UNCHANGED <<reply, runs, adminOps>>
    /\ LET planet_data == get_enhanced_planetary_data(
                              run.include_moons, run.include_rings)[run.idx]
           found == ByName(db, planet_data.name)
           next_pc == IF run.idx = 9 THEN "sun" ELSE "planets"
       IN  IF found = {}
           THEN IF UniqueViolation(db, planet_data, 0)
                THEN Abort("IntegrityError", planet_data.name)
                ELSE /\ db' = db \cup {NewRow(planet_data, nextId, clock)}
                     /\ nextId' = nextId + 1
                     /\ run' = [ run EXCEPT !.idx = @ + 1,
                                            !.created_count = @ + 1 ]
                     /\ pc' = next_pc
                     /\ last' = [ op |-> "get_or_create",
                                  name |-> planet_data.name,
                                  action |-> "Created" ]
                     /\ UNCHANGED prev
           ELSE LET planet == CHOOSE r \in found : TRUE
                IN  IF run.update_existing
                    THEN IF UniqueViolation(db, planet_data, planet.id)
                         THEN Abort("IntegrityError", planet_data.name)
                         ELSE /\ db' = (db \ {planet})
                                         \cup {Updated(planet, planet_data, clock)}
                              /\ run' = [ run EXCEPT !.idx = @ + 1,
                                                     !.updated_count = @ + 1 ]
                              /\ pc' = next_pc
                              /\ last' = [ op |-> "get_or_create",
                                           name |-> planet_data.name,
                                           action |-> "Updated",
                                           was_active |-> planet.is_active ]
                              /\ UNCHANGED <<nextId, prev>>
                    ELSE /\ run' = [ run EXCEPT !.idx = @ + 1 ]
                         /\ pc' = next_pc
                         /\ last' = [ op |-> "get_or_create",
                                      name |-> planet_data.name,
                                      action |-> "Skipped" ]
                         /\ UNCHANGED <<db, nextId, prev>>

\* _create_enhanced_sun.
SunStep ==
    /\ pc = "sun"
    /\ clock' = clock + 1
    /\ UNCHANGED <<reply, runs, adminOps>>
    /\ LET found == ByName(db, "Sun")
       IN  IF found = {}
           THEN IF UniqueViolation(db, sun_data, 0)
                THEN Abort("IntegrityError", "Sun")
                ELSE /\ db' = db \cup {NewRow(sun_data, nextId, clock)}
                     /\ nextId' = nextId + 1
                     /\ run' = [ run EXCEPT !.sun_created = TRUE ]
                     /\ pc' = "export"
                     /\ last' = [ op |-> "get_or_create", name |-> "Sun",
                                  action |-> "Created" ]
                     /\ UNCHANGED prev
           ELSE LET sun == CHOOSE r \in found : TRUE
                IN  IF run.update_existing
                    THEN IF UniqueViolation(db, sun_data, sun.id)
                         THEN Abort("IntegrityError", "Sun")
                         ELSE /\ db' = (db \ {sun})
                                         \cup {Updated(sun, sun_data, clock)}
                              /\ run' = [ run EXCEPT !.sun_created = TRUE ]
                              /\ pc' = "export"
                              /\ last' = [ op |-> "get_or_create",
                                           name |-> "Sun",
                                           action |-> "Updated" ]
                              /\ UNCHANGED <<nextId, prev>>
                    ELSE /\ run' = [ run EXCEPT !.sun_created = FALSE ]
                         /\ pc' = "export"
                         /\ last' = [ op |-> "get_or_create", name |-> "Sun",
                                      action |-> "Skipped" ]
                         /\ UNCHANGED <<db, nextId, prev>>

\* ----------------------------------------------- populate_planets (basic)

\* handle() of populate_planets, up to the try block.
BasicBegin(clear) ==
    /\ pc = "idle"
    /\ reply = NoReply
    /\ runs < MaxRuns
    /\ runs' = runs + 1
    /\ db' = IF clear THEN DeleteAll(db) ELSE db
    /\ run' = [ NoRun EXCEPT !.clear = clear, !.idx = 1,
                             !.first_id = nextId, !.started = clock + 1 ]
    /\ pc' = "basic_planets"
    /\ clock' = clock + 1
    /\ last' = [ op |-> "clear", cleared |-> clear,
                 deleted_count |-> IF clear THEN Cardinality(db) ELSE 0 ]
    /\ prev' = NoPrev
    /\ UNCHANGED <<nextId, reply, adminOps>>

\* except Exception as e: raise CommandError(...)
BasicAbort(cause, name) ==
    /\ pc' = "idle"
    /\ run' = NoRun
    /\ last' = [ op |-> "populate_planets", raised |-> "CommandError",
                 cause |-> cause, at |-> name, cleared |-> run.clear ]
    /\ UNCHANGED <<db, nextId, prev>>

\* Mutant of Upsert: a row that is there is left as it is.
Upsert_skip(rows, data, id, now) ==
    IF ByName(rows, data.name) = {}
    THEN rows \cup {NewRow(data, id, now)}
    ELSE rows

\* get_or_create(name=..., defaults=data) and, for a row that was there,
\* setattr of every key and save(): the table afterwards.
Upsert(rows, data, id, now) ==
    LET found == ByName(rows, data.name)
    IN  IF found = {}
        THEN rows \cup {NewRow(data, id, now)}
        ELSE LET planet == CHOOSE r \in found : TRUE
             IN  (rows \ {planet}) \cup {Updated(planet, data, now)}

\* The INSERT or UPDATE of Upsert is refused by a unique constraint.
UpsertRaises(rows, data) ==
    LET found == ByName(rows, data.name)
    IN  IF found = {}
        THEN UniqueViolation(rows, data, 0)
        ELSE UniqueViolation(rows, data, (CHOOSE r \in found : TRUE).id)

\* One iteration of the loop of _populate_planets.
BasicPopulateStep ==
    /\ pc = "basic_planets"
    /\ clock' = clock + 1
    /\ UNCHANGED <<reply, runs, adminOps>>
    /\ LET planet_data == get_planetary_data[run.idx]
           created == ByName(db, planet_data.name) = {}
       IN  IF UpsertRaises(db, planet_data)
           THEN BasicAbort("IntegrityError", planet_data.name)
           ELSE /\ db' = Upsert(db, planet_data, nextId, clock)
                /\ nextId' = IF created THEN nextId + 1 ELSE nextId
                /\ run' = [ run EXCEPT !.idx = @ + 1 ]
                /\ pc' = IF run.idx = 9 THEN "basic_sun" ELSE "basic_planets"
                /\ last' = [ op |-> "get_or_create", name |-> planet_data.name,
                             action |-> IF created THEN "Created" ELSE "Updated" ]
                /\ UNCHANGED prev

\* _create_sun, and the success message of handle().
BasicSunStep ==
    /\ pc = "basic_sun"
    /\ clock' = clock + 1
    /\ UNCHANGED <<reply, runs, adminOps>>
    /\ IF UpsertRaises(db, create_sun_data)
       THEN BasicAbort("IntegrityError", "Sun")
       ELSE /\ db' = Upsert(db, create_sun_data, nextId, clock)
            /\ nextId' = IF ByName(db, "Sun") = {} THEN nextId + 1 ELSE nextId
            /\ run' = NoRun
            /\ pc' = "idle"
            /\ last' = [ op |-> "populate_planets", raised |-> "",
                         cause |-> "", at |-> "", cleared |-> run.clear ]
            /\ UNCHANGED prev

\* sum(p.moon_count for p in Planet.objects.all())
RECURSIVE SumMoons(_)
SumMoons(rows) ==
    IF rows = {} THEN 0
    ELSE LET r == CHOOSE x \in rows : TRUE
         IN  r.moon_count + SumMoons(rows \ {r})

\* Mutant of Summary: the Sun is added to the count of created planets.
Summary_counts_sun ==
    /\ pc = "summary"
    /\ pc' = "idle"
    /\ run' = NoRun
    /\ last' = [ op |-> "handle", raised |-> "", cause |-> "", at |-> "",
                 errors |-> 0,
                 total_planets |-> Cardinality(db),
                 created_count |-> run.created_count
                                      + (IF run.sun_created THEN 1 ELSE 0),
                 updated_count |-> run.updated_count,
                 sun_created |-> run.sun_created,
                 planets_with_moons |-> Cardinality({r \in db : r.has_moons}),
                 planets_with_rings |-> Cardinality({r \in db : r.has_rings}),
                 total_moons |-> SumMoons(db) ]
    /\ prev' = Finished(run, "", db)
    /\ UNCHANGED <<db, nextId, clock, reply, runs, adminOps>>

\* The summary statistics handle() prints when nothing raised.
Summary ==
    /\ pc = "summary"
    /\ pc' = "idle"
    /\ run' = NoRun
    /\ last' = [ op |-> "handle", raised |-> "", cause |-> "", at |-> "",
                 errors |-> 0,
                 total_planets |-> Cardinality(db),
                 created_count |-> run.created_count,
                 updated_count |-> run.updated_count,
                 sun_created |-> run.sun_created,
                 planets_with_moons |-> Cardinality({r \in db : r.has_moons}),
                 planets_with_rings |-> Cardinality({r \in db : r.has_rings}),
                 total_moons |-> SumMoons(db) ]
    /\ prev' = Finished(run, "", db)
    /\ UNCHANGED <<db, nextId, clock, reply, runs, adminOps>>

\* ------------------------------------------------------------ PlanetAdmin

\* The rows an admin user opens or selects in this model.
AdminNames == {"Earth", "Ceres"}

\* The add form, filled in for a body the command does not seed; the
\* is_dwarf_planet checkbox is left at its default.
NewCeres(order) ==
    Body("Ceres", order, "dwarf_planet", 2770, 940, Dec(16, -5), 168200, 76,
         907, 4000, <<"Ceres: rock and ice">>, "", <<"#","8","8","8","8","8","8">>,
         "", 90, FALSE, FALSE, FALSE, 0)

\* The display_order values typed into the add form: Earth's and a free one.
NewOrders == {3, 10}

EditKinds ==
    {"reorder", "deactivate", "moonflag", "color", "shortcolor", "rename", "mass"}

\* The change form of a row, with one field group edited.
Edit(row, kind) ==
    CASE kind = "reorder"    -> [row EXCEPT !.display_order = 5]
      [] kind = "deactivate" -> [row EXCEPT !.is_active = FALSE]
      [] kind = "moonflag"   -> [row EXCEPT !.has_moons = TRUE, !.moon_count = 0]
      [] kind = "color"      -> [row EXCEPT !.color_hex =
                                     <<"#","G","G","G","G","G","G">>]
      [] kind = "shortcolor" -> [row EXCEPT !.color_hex = <<"#","F","F","F">>]
      [] kind = "rename"     -> [row EXCEPT !.name = "Terra"]
      [] kind = "mass"       -> [row EXCEPT !.mass = Dec(2, 0)]

\* Planet.objects.aggregate(Max('display_order'))['max_order'] or 0
MaxOrderOr0(rows) ==
    IF rows = {} THEN 0
    ELSE (CHOOSE r \in rows : \A q \in rows : q.display_order <= r.display_order)
             .display_order

\* Mutant of NextFreeOrder: the clash is answered with the highest order in
\* use instead of the one after it.
NextFreeOrder_max(rows) == MaxOrderOr0(rows)

\* obj.display_order = max_order + 1
NextFreeOrder(rows) == MaxOrderOr0(rows) + 1

\* save_model(request, obj, form, change): obj carries the form's values;
\* pk = 0 stands for the pk None of an object being added.
SaveModel(obj, pk) ==
    /\ pc = "idle"
    /\ reply = NoReply
    /\ adminOps < MaxAdminOps
    /\ adminOps' = adminOps + 1
    /\ clock' = clock + 1
    /\ UNCHANGED <<pc, run, reply, runs>>
    /\ LET clash == \E r \in db :
                       r.display_order = obj.display_order /\ r.id # pk
           saved == IF clash
                    THEN [obj EXCEPT !.display_order = NextFreeOrder(db)]
                    ELSE obj
       IN  IF UniqueViolation(db, saved, pk)
           THEN /\ last' = [ op |-> "save_model", raised |-> "IntegrityError",
                             pk |-> pk, reordered |-> clash,
                             display_order |-> obj.display_order,
                             name |-> obj.name ]
                /\ UNCHANGED <<db, nextId, prev>>
           ELSE /\ prev' = NoPrev
                /\ IF pk = 0
                   THEN /\ db' = db \cup {NewRow(saved, nextId, clock)}
                        /\ nextId' = nextId + 1
                        /\ last' = [ op |-> "save_model", raised |-> "",
                                     pk |-> nextId, reordered |-> clash,
                             display_order |-> obj.display_order,
                             name |-> obj.name ]
                   ELSE /\ db' = { IF r.id = pk
                                   THEN Updated(r, saved, clock) ELSE r : r \in db }
                        /\ nextId' = nextId
                        /\ last' = [ op |-> "save_model", raised |-> "",
                                     pk |-> pk, reordered |-> clash,
                             display_order |-> obj.display_order,
                             name |-> obj.name ]

\* Mutant of QuerysetUpdate: deactivating deletes the selected rows.
QuerysetUpdate_delete(rows, selected, value) ==
    IF value
    THEN { IF r.id \in selected THEN [r EXCEPT !.is_active = TRUE] ELSE r : r \in rows }
    ELSE { r \in rows : r.id \notin selected }

\* Mutant of QuerysetUpdate: the update runs on Planet.objects instead of
\* the queryset of the selection.
QuerysetUpdate_all(rows, selected, value) ==
    { [r EXCEPT !.is_active = value] : r \in rows }

\* queryset.update(is_active=value): one UPDATE statement, no save() and so
\* no auto_now.
QuerysetUpdate(rows, selected, value) ==
    { IF r.id \in selected THEN [r EXCEPT !.is_active = value] ELSE r : r \in rows }

\* activate_planets, deactivate_planets and reset_to_defaults.
BulkAction(action, selected) ==
    /\ pc = "idle"
    /\ reply = NoReply
    /\ adminOps < MaxAdminOps
    /\ adminOps' = adminOps + 1
    /\ clock' = clock + 1
    /\ db' = QuerysetUpdate(db, selected, action # "deactivate_planets")
    /\ last' = [ op |-> action, updated |-> Cardinality(selected),
                 selected |-> selected ]
    /\ prev' = NoPrev
    /\ UNCHANGED <<nextId, pc, run, reply, runs>>

AdminIds == { r.id : r \in { x \in db : x.name \in AdminNames } }

Admin ==
    \/ \E order \in NewOrders : SaveModel(NewCeres(order), 0)
    \/ \E r \in db, kind \in EditKinds :
           r.name \in AdminNames /\ SaveModel(Edit(r, kind), r.id)
    \/ \E action \in {"activate_planets", "deactivate_planets", "reset_to_defaults"},
          selected \in (SUBSET AdminIds) \ {{}} :
           BulkAction(action, selected)

\* ------------------------------------------------------------------ Planet

\* round(n / d) of Python 3 for d # 0: the nearest integer, a tie going to
\* the even neighbour (taken on the exact quotient).
RoundDiv(n, d) ==
    LET nn == IF d < 0 THEN -n ELSE n
        dd == IF d < 0 THEN -d ELSE d
        q  == nn \div dd
        r  == nn - q * dd
    IN  IF 2 * r < dd THEN q
        ELSE IF 2 * r > dd THEN q + 1
        ELSE IF q % 2 = 0 THEN q ELSE q + 1

RECURSIVE Pow10(_)
Pow10(n) == IF n = 0 THEN 1 ELSE 10 * Pow10(n - 1)

\* get_orbital_period_years, in hundredths of a year.
get_orbital_period_years(row) == RoundDiv(row.orbital_period * 100, 36525)

\* get_rotation_period_days, in hundredths of a day.
get_rotation_period_days(row) == RoundDiv(row.rotation_period, 24)

\* get_diameter_earth_relative, in hundredths.
get_diameter_earth_relative(row) == RoundDiv(row.diameter * 100, 12742)

Larger(a, b) == IF a >= b THEN a ELSE b

\* Mutant of get_scaled_size: the radius is returned as it is, with no
\* minimum.
get_scaled_size_nofloor(row, scale_factor) ==
    [ num |-> 5 * row.diameter, den |-> 10 * scale_factor ]

\* get_scaled_size: max(diameter / 2 / scale_factor, 0.1), as the fraction
\* num / den with den = 10 * scale_factor.
get_scaled_size(row, scale_factor) ==
    [ num |-> Larger(5 * row.diameter, scale_factor), den |-> 10 * scale_factor ]

\* get_scaled_distance: max(distance_from_sun * scale_factor, 1.0), in
\* thousandths.
get_scaled_distance(row, scale_factor) ==
    Larger(row.distance_from_sun * scale_factor, 1000)

to_dict(row) ==
    [ id |-> row.id, name |-> row.name, display_order |-> row.display_order,
      planet_type |-> row.planet_type,
      distance_from_sun |-> row.distance_from_sun, diameter |-> row.diameter,
      mass |-> row.mass, orbital_period |-> row.orbital_period,
      orbital_eccentricity |-> row.orbital_eccentricity,
      rotation_period |-> row.rotation_period, axial_tilt |-> row.axial_tilt,
      composition |-> row.composition, atmosphere |-> row.atmosphere,
      color_hex |-> row.color_hex, texture_filename |-> row.texture_filename,
      albedo |-> row.albedo, is_dwarf_planet |-> row.is_dwarf_planet,
      has_rings |-> row.has_rings, has_moons |-> row.has_moons,
      moon_count |-> row.moon_count,
      orbital_period_years |-> get_orbital_period_years(row),
      rotation_period_days |-> get_rotation_period_days(row),
      diameter_earth_relative |-> get_diameter_earth_relative(row),
      scaled_size |-> get_scaled_size(row, 1000),
      scaled_distance |-> get_scaled_distance(row, 10) ]

\* ----------------------------------------------------------- PlanetManager

\* queryset.order_by('display_order')
RECURSIVE order_by(_)
order_by(rows) ==
    IF rows = {} THEN <<>>
    ELSE LET r == CHOOSE x \in rows :
                      \A y \in rows : x.display_order <= y.display_order
         IN  <<r>> \o order_by(rows \ {r})

\* Mutant of get_ordered_planets: the is_active filter is missing.
get_ordered_planets_unfiltered(rows) == order_by(rows)

get_ordered_planets(rows) == order_by({ r \in rows : r.is_active })

\* Mutant of get_planets_by_type: the is_active=True condition is missing.
get_planets_by_type_inactive(rows, planet_type) ==
    order_by({ r \in rows : r.planet_type = planet_type })

\* get_terrestrial_planets and get_gas_giants
get_planets_by_type(rows, planet_type) ==
    order_by({ r \in rows : r.planet_type = planet_type /\ r.is_active })

\* The types the manager has a method for.
ManagerTypes == {"terrestrial", "gas_giant"}

\* ------------------------------------------------------------------ views

\* json_response(data, status)
json_response(data, status) == [ status |-> status, data |-> data ]

\* error_response(message, status)
error_response(message, status) ==
    json_response([ error |-> TRUE, message |-> message ], status)

\* PlanetsAPIView.get, without the cache_page decorator.
PlanetsAPIView_get(rows) ==
    LET planets == get_ordered_planets(rows)
        planets_data == [ i \in 1..Len(planets) |-> to_dict(planets[i]) ]
    IN  json_response([ success |-> TRUE, count |-> Len(planets_data),
                        planets |-> planets_data ], 200)

get_planet_fun_facts(planet) ==
    IF planet.name \in CanonicalNames \ {"Sun"}
    THEN <<planet.name, "fact 1", "fact 2", "fact 3">>
    ELSE <<>>

get_exploration_info(planet) ==
    IF planet.name \in CanonicalNames \ {"Sun"}
    THEN <<planet.name, "missions">>
    ELSE <<"Limited or no direct exploration">>

\* if planet.mass: a NULL and a zero mass are both false.
Truthy(mass) == ~mass.null /\ mass.m # 0

\* The divisions of _get_earth_comparison raise ZeroDivisionError.
EarthComparisonRaises(rows) ==
    \E earth \in ByName(rows, "Earth") :
        \/ earth.diameter = 0
        \/ earth.distance_from_sun = 0
        \/ earth.orbital_period = 0
        \/ earth.rotation_period = 0

Abs(x) == IF x < 0 THEN -x ELSE x

\* _get_earth_comparison; the ratios in hundredths.  earth is the row named
\* Earth, whatever its is_active.
get_earth_comparison(planet, rows) ==
    IF ByName(rows, "Earth") = {}
    THEN [ empty |-> TRUE ]
    ELSE LET earth == CHOOSE r \in ByName(rows, "Earth") : TRUE
         IN  [ empty |-> FALSE,
               size_ratio |-> RoundDiv(planet.diameter * 100, earth.diameter),
               mass_ratio |-> IF Truthy(planet.mass)
                              THEN [ unknown |-> FALSE, value |-> planet.mass ]
                              ELSE [ unknown |-> TRUE, value |-> NoMass ],
               distance_ratio |-> RoundDiv(planet.distance_from_sun * 100,
                                           earth.distance_from_sun),
               year_length_ratio |-> RoundDiv(planet.orbital_period * 100,
                                              earth.orbital_period),
               day_length_ratio |-> RoundDiv(Abs(planet.rotation_period) * 100,
                                             earth.rotation_period) ]

\* Mutant of PlanetDetailAPIView_get: the lookup is by id alone.
PlanetDetailAPIView_get_any(rows, planet_id) ==
    LET found == { r \in rows : r.id = planet_id }
    IN  IF found = {}
        THEN error_response("Planet not found", 404)
        ELSE json_response([ success |-> TRUE,
                             planet |-> to_dict(CHOOSE r \in found : TRUE) ], 200)

\* PlanetDetailAPIView.get
PlanetDetailAPIView_get(rows, planet_id) ==
    LET found == { r \in rows : r.id = planet_id /\ r.is_active }
    IN  IF found = {}
        THEN error_response("Planet not found", 404)
        ELSE IF EarthComparisonRaises(rows)
        THEN error_response("Failed to retrieve planet data", 500)
        ELSE LET planet == CHOOSE r \in found : TRUE
             IN  json_response(
                     [ success |-> TRUE,
                       planet |-> to_dict(planet),
                       fun_facts |-> get_planet_fun_facts(planet),
                       comparison_to_earth |-> get_earth_comparison(planet, rows),
                       exploration_status |-> get_exploration_info(planet) ],
                     200)

\* GET /api/planets/
GetPlanets ==
    /\ pc = "idle"
    /\ reply = NoReply
    /\ reply' = [ op |-> "planets_api", response |-> PlanetsAPIView_get(db) ]
    /\ UNCHANGED <<db, nextId, clock, pc, run, last, prev, runs, adminOps>>

\* Mutant of GetPlanetDetail: the view saves the planet it serves, and save()
\* stamps updated_at.
GetPlanetDetail_saves(planet_id) ==
    /\ pc = "idle"
    /\ reply = NoReply
    /\ reply' = [ op |-> "planet_detail_api", planet_id |-> planet_id,
                  response |-> PlanetDetailAPIView_get(db, planet_id) ]
    /\ db' = { IF r.id = planet_id /\ r.is_active
               THEN [r EXCEPT !.updated_at = clock] ELSE r : r \in db }
    /\ UNCHANGED <<nextId, clock, pc, run, last, prev, runs, adminOps>>

\* GET /api/planets/<planet_id>/
GetPlanetDetail(planet_id) ==
    /\ pc = "idle"
    /\ reply = NoReply
    /\ reply' = [ op |-> "planet_detail_api", planet_id |-> planet_id,
                  response |-> PlanetDetailAPIView_get(db, planet_id) ]
    /\ UNCHANGED <<db, nextId, clock, pc, run, last, prev, runs, adminOps>>

\* Planet.objects.get_terrestrial_planets() / get_gas_giants()
ListByType(planet_type) ==
    /\ pc = "idle"
    /\ reply = NoReply
    /\ reply' = [ op |-> "list_by_type", planet_type |-> planet_type,
                  planets |-> get_planets_by_type(db, planet_type) ]
    /\ UNCHANGED <<db, nextId, clock, pc, run, last, prev, runs, adminOps>>

\* sun.to_dict() if sun else None
NoStar == [ none |-> TRUE ]

\* Mutant of SystemInfoAPIView_get: the exclude(name='Sun') is missing.
SystemInfoAPIView_get_with_sun(rows) ==
    LET planets == { r \in rows : r.is_active }
        sun == ByName(rows, "Sun")
    IN  json_response(
            [ success |-> TRUE,
              system_info |->
                [ total_planets |-> Cardinality(planets),
                  planet_types |->
                    [ terrestrial |-> Cardinality(
                          { r \in planets : r.planet_type = "terrestrial" }),
                      gas_giants |-> Cardinality(
                          { r \in planets : r.planet_type = "gas_giant" }),
                      ice_giants |-> Cardinality(
                          { r \in planets : r.planet_type = "ice_giant" }),
                      dwarf_planets |-> Cardinality(
                          { r \in planets : r.is_dwarf_planet }) ],
                  total_moons |-> SumMoons(planets),
                  central_star |-> IF sun = {} THEN NoStar
                                   ELSE to_dict(CHOOSE r \in sun : TRUE),
                  system_age |-> "4.6 billion years",
                  system_diameter |-> "~100,000 AU (including Oort Cloud)",
                  habitable_zone |-> "0.95 to 1.37 AU from Sun" ] ],
            200)

\* Mutant of SystemInfoAPIView_get: the is_active filter is missing.
SystemInfoAPIView_get_all(rows) ==
    LET planets == { r \in rows : r.name # "Sun" }
        sun == ByName(rows, "Sun")
    IN  json_response(
            [ success |-> TRUE,
              system_info |->
                [ total_planets |-> Cardinality(planets),
                  planet_types |->
                    [ terrestrial |-> Cardinality(
                          { r \in planets : r.planet_type = "terrestrial" }),
                      gas_giants |-> Cardinality(
                          { r \in planets : r.planet_type = "gas_giant" }),
                      ice_giants |-> Cardinality(
                          { r \in planets : r.planet_type = "ice_giant" }),
                      dwarf_planets |-> Cardinality(
                          { r \in planets : r.is_dwarf_planet }) ],
                  total_moons |-> SumMoons(planets),
                  central_star |-> IF sun = {} THEN NoStar
                                   ELSE to_dict(CHOOSE r \in sun : TRUE),
                  system_age |-> "4.6 billion years",
                  system_diameter |-> "~100,000 AU (including Oort Cloud)",
                  habitable_zone |-> "0.95 to 1.37 AU from Sun" ] ],
            200)

\* SystemInfoAPIView.get
SystemInfoAPIView_get(rows) ==
    LET planets == { r \in rows : r.is_active /\ r.name # "Sun" }
        sun == ByName(rows, "Sun")
    IN  json_response(
            [ success |-> TRUE,
              system_info |->
                [ total_planets |-> Cardinality(planets),
                  planet_types |->
                    [ terrestrial |-> Cardinality(
                          { r \in planets : r.planet_type = "terrestrial" }),
                      gas_giants |-> Cardinality(
                          { r \in planets : r.planet_type = "gas_giant" }),
                      ice_giants |-> Cardinality(
                          { r \in planets : r.planet_type = "ice_giant" }),
                      dwarf_planets |-> Cardinality(
                          { r \in planets : r.is_dwarf_planet }) ],
                  total_moons |-> SumMoons(planets),
                  central_star |-> IF sun = {} THEN NoStar
                                   ELSE to_dict(CHOOSE r \in sun : TRUE),
                  system_age |-> "4.6 billion years",
                  system_diameter |-> "~100,000 AU (including Oort Cloud)",
                  habitable_zone |-> "0.95 to 1.37 AU from Sun" ] ],
            200)

\* GET /api/system-info/
GetSystemInfo ==
    /\ pc = "idle"
    /\ reply = NoReply
    /\ reply' = [ op |-> "system_info_api", response |-> SystemInfoAPIView_get(db) ]
    /\ UNCHANGED <<db, nextId, clock, pc, run, last, prev, runs, adminOps>>

\* --------------------------------------------------------- _export_to_json

\* The values given to --export-json: none, and a file name.
ExportPaths == {"", "planets.json"}

\* float(planet.mass) if planet.mass else None
export_mass(mass) == IF Truthy(mass) THEN mass ELSE NoMass

\* planet_dict of _export_to_json: the keys it writes (there is no 'id').
planet_dict(planet) ==
    [ name |-> planet.name, display_order |-> planet.display_order,
      planet_type |-> planet.planet_type,
      distance_from_sun |-> planet.distance_from_sun,
      diameter |-> planet.diameter, mass |-> export_mass(planet.mass),
      orbital_period |-> planet.orbital_period,
      orbital_eccentricity |-> planet.orbital_eccentricity,
      rotation_period |-> planet.rotation_period,
      axial_tilt |-> planet.axial_tilt, composition |-> planet.composition,
      atmosphere |-> planet.atmosphere, color_hex |-> planet.color_hex,
      texture_filename |-> planet.texture_filename, albedo |-> planet.albedo,
      is_dwarf_planet |-> planet.is_dwarf_planet,
      has_rings |-> planet.has_rings, has_moons |-> planet.has_moons,
      moon_count |-> planet.moon_count, is_active |-> planet.is_active,
      created_at |-> planet.created_at, updated_at |-> planet.updated_at ]

\* Mutant of export_data: the rows come from the manager's
\* get_ordered_planets(), which keeps the active ones only.
export_data_active(rows, now) ==
    LET planets == get_ordered_planets(rows)
        planets_data == [ i \in 1..Len(planets) |-> planet_dict(planets[i]) ]
    IN  [ metadata |-> [ export_date |-> now,
                         total_objects |-> Len(planets_data),
                         command_version |-> "2.0" ],
          solar_system |-> planets_data ]

\* export_data of _export_to_json, built from
\* Planet.objects.all().order_by('display_order').
export_data(rows, now) ==
    LET planets == order_by(rows)
        planets_data == [ i \in 1..Len(planets) |-> planet_dict(planets[i]) ]
    IN  [ metadata |-> [ export_date |-> now,
                         total_objects |-> Len(planets_data),
                         command_version |-> "2.0" ],
          solar_system |-> planets_data ]

\* No file has been written.
NoFile == [ metadata |-> [ export_date |-> 0, total_objects |-> 0,
                           command_version |-> "" ],
            solar_system |-> <<>> ]

\* Mutant of ExportStep: the try / except around open() and json.dump() is
\* missing, and the I/O error leaves handle() as a CommandError.
ExportStep_raises ==
    /\ pc = "export"
    /\ UNCHANGED <<clock, reply, runs, adminOps>>
    /\ \E export_json \in ExportPaths, written \in BOOLEAN :
           IF export_json = ""
           THEN /\ pc' = "summary"
                /\ UNCHANGED <<db, nextId, run, last, prev>>
           ELSE IF written
           THEN /\ pc' = "summary"
                /\ last' = [ op |-> "export", filename |-> export_json,
                             failed |-> FALSE, file |-> export_data(db, clock) ]
                /\ UNCHANGED <<db, nextId, run, prev>>
           ELSE Abort("OSError", export_json)

\* handle(), "if export_json: self._export_to_json(export_json, verbose)".
\* The option is an input of handle() that nothing reads before this line;
\* it is drawn here.  written is whether open() and json.dump() succeed; a
\* failure is caught and printed.
ExportStep ==
    /\ pc = "export"
    /\ pc' = "summary"
    /\ UNCHANGED <<db, nextId, clock, run, prev, reply, runs, adminOps>>
    /\ \E export_json \in ExportPaths, written \in BOOLEAN :
           IF export_json = ""
           THEN UNCHANGED last
           ELSE last' = [ op |-> "export", filename |-> export_json,
                          failed |-> ~written,
                          file |-> IF written THEN export_data(db, clock)
                                   ELSE NoFile ]

\* ------------------------------------------------ _validate_planetary_data

\* Mutant of PlanetErrors: the has_moons=True / moon_count=0 check is gone.
PlanetErrors_nomoons(planet) ==
    (IF planet.name = "" THEN <<"Planet missing name">> ELSE <<>>)
    \o (IF planet.distance_from_sun < 0
        THEN <<"Invalid distance_from_sun">> ELSE <<>>)
    \o (IF planet.diameter <= 0 THEN <<"Invalid diameter">> ELSE <<>>)
    \o (IF planet.orbital_period <= 0 /\ planet.name # "Sun"
        THEN <<"Invalid orbital_period">> ELSE <<>>)
    \o (IF ~planet.has_moons /\ planet.moon_count > 0
        THEN <<"has_moons=False but moon_count>0">> ELSE <<>>)
    \o (IF ~(Len(planet.color_hex) > 0 /\ planet.color_hex[1] = "#")
           \/ Len(planet.color_hex) # 7
        THEN <<"Invalid color_hex format">> ELSE <<>>)

\* The validation_errors one planet adds, in the order of the checks.
PlanetErrors(planet) ==
    (IF planet.name = "" THEN <<"Planet missing name">> ELSE <<>>)
    \o (IF planet.distance_from_sun < 0
        THEN <<"Invalid distance_from_sun">> ELSE <<>>)
    \o (IF planet.diameter <= 0 THEN <<"Invalid diameter">> ELSE <<>>)
    \o (IF planet.orbital_period <= 0 /\ planet.name # "Sun"
        THEN <<"Invalid orbital_period">> ELSE <<>>)
    \o (IF planet.has_moons /\ planet.moon_count = 0
        THEN <<"has_moons=True but moon_count=0">> ELSE <<>>)
    \o (IF ~planet.has_moons /\ planet.moon_count > 0
        THEN <<"has_moons=False but moon_count>0">> ELSE <<>>)
    \o (IF ~(Len(planet.color_hex) > 0 /\ planet.color_hex[1] = "#")
           \/ Len(planet.color_hex) # 7
        THEN <<"Invalid color_hex format">> ELSE <<>>)

RECURSIVE AllPlanetErrors(_)
AllPlanetErrors(planets) ==
    IF planets = <<>> THEN <<>>
    ELSE PlanetErrors(Head(planets)) \o AllPlanetErrors(Tail(planets))

\* _validate_planetary_data: the list of errors and the value returned.
validate_planetary_data(rows) ==
    LET planets == order_by(rows)
        display_orders == { r.display_order : r \in rows }
        validation_errors ==
            AllPlanetErrors(planets)
            \o (IF Cardinality(rows) # Cardinality(display_orders)
                THEN <<"Duplicate display_order values found">> ELSE <<>>)
    IN  [ ok |-> validation_errors = <<>>, validation_errors |-> validation_errors ]

Validate ==
    /\ pc = "idle"
    /\ reply = NoReply
    /\ reply' = [ op |-> "validate", result |-> validate_planetary_data(db) ]
    /\ UNCHANGED <<db, nextId, clock, pc, run, last, prev, runs, adminOps>>

\* The read operation returns: dispatch() hands the response to the client,
\* _validate_planetary_data its value to the caller.
Return ==
    /\ reply # NoReply
    /\ reply' = NoReply
    /\ UNCHANGED <<db, nextId, clock, pc, run, last, prev, runs, adminOps>>

\* ------------------------------------------------- the rendering transforms

\* The table after populate_enhanced_planets --clear run on its own: the nine
\* bodies inserted in order, then the Sun.
SeededTable(include_moons, include_rings) ==
    { NewRow(get_enhanced_planetary_data(include_moons, include_rings)[i],
             i, i + 1) : i \in 1..9 }
        \cup { NewRow(sun_data, 10, 11) }

SizeFactors == { Pow10(k) : k \in 0..MaxScaleExp }

DistanceFactors == { Pow10(k) : k \in 0..(MaxScaleExp - 2) }

\* planet.get_scaled_size(size_factor) and
\* planet.get_scaled_distance(distance_factor) for a stored planet.
Render(size_factor, distance_factor) ==
    /\ pc = "idle"
    /\ reply = NoReply
    /\ \E planet \in db :
           reply' = [ op |-> "render", planet_id |-> planet.id,
                      size_factor |-> size_factor,
                      distance_factor |-> distance_factor,
                      scaled_size |-> get_scaled_size(planet, size_factor),
                      scaled_distance |->
                          get_scaled_distance(planet, distance_factor) ]
    /\ UNCHANGED <<db, nextId, clock, pc, run, last, prev, runs, adminOps>>

\* The seeded table, and nothing answered yet.
InitRender ==
    /\ db \in { SeededTable(detail[1], detail[2]) : detail \in DetailOptions }
    /\ nextId = 11
    /\ clock = 12
    /\ pc = "idle"
    /\ run = NoRun
    /\ last = [op |-> "none"]
    /\ prev = NoPrev
    /\ reply = NoReply
    /\ runs = 1
    /\ adminOps = 0

NextRender ==
    \/ \E size_factor \in SizeFactors, distance_factor \in DistanceFactors :
           Render(size_factor, distance_factor)
    \/ Return

RenderSpec == InitRender /\ [][NextRender]_vars

\* ------------------------------------------------------- the admin session

\* The seeded table after the admin has added Ceres (display_order 10) and
\* deactivated Earth with the bulk action.
AdminTable(include_moons, include_rings) ==
    QuerysetUpdate(SeededTable(include_moons, include_rings)
                       \cup { NewRow(NewCeres(10), 11, 12) },
                   {3}, FALSE)

InitAdmin ==
    /\ db \in { AdminTable(detail[1], detail[2]) : detail \in DetailOptions }
    /\ nextId = 12
    /\ clock = 14
    /\ pc = "idle"
    /\ run = NoRun
    /\ last = [op |-> "none"]
    /\ prev = NoPrev
    /\ reply = NoReply
    /\ runs = 1
    /\ adminOps = 0

NextAdmin ==
    \/ Admin
    \/ GetPlanets
    \/ \E planet_id \in 1..MaxPlanetId : GetPlanetDetail(planet_id)
    \/ Return

AdminSpec == InitAdmin /\ [][NextAdmin]_vars

\* -------------------------------------- populate_planets on a given store

\* The stores the basic command is run on: the empty table, and the table
\* populate_enhanced_planets seeded; the admin may change either first.
BasicStores ==
    { [ db |-> {}, nextId |-> 1, clock |-> 1, runs |-> 0 ] }
        \cup { [ db |-> SeededTable(detail[1], detail[2]), nextId |-> 11,
                 clock |-> 12, runs |-> 1 ] : detail \in DetailOptions }

InitBasic ==
    /\ \E store \in BasicStores :
           /\ db = store.db
           /\ nextId = store.nextId
           /\ clock = store.clock
           /\ runs = store.runs
    /\ pc = "idle"
    /\ run = NoRun
    /\ last = [op |-> "none"]
    /\ prev = NoPrev
    /\ reply = NoReply
    /\ adminOps = 0

NextBasic ==
    \/ \E clear \in BOOLEAN : BasicBegin(clear)
    \/ BasicPopulateStep
    \/ BasicSunStep
    \/ Admin

BasicSpec == InitBasic /\ [][NextBasic]_vars

Init ==
    /\ db = {}
    /\ nextId = 1
    /\ clock = 1
    /\ pc = "idle"
    /\ run = NoRun
    /\ last = [op |-> "none"]
    /\ prev = NoPrev
    /\ reply = NoReply
    /\ runs = 0
    /\ adminOps = 0

Next ==
    \/ \E clear, update_existing \in BOOLEAN, detail \in DetailOptions :
           HandleBegin(clear, detail[1], detail[2], update_existing)
    \/ PopulateStep
    \/ SunStep
    \/ ExportStep
    \/ Summary
    \/ Admin
    \/ GetPlanets
    \/ \E planet_id \in 1..MaxPlanetId : GetPlanetDetail(planet_id)
    \/ Validate
    \/ GetSystemInfo
    \/ \E planet_type \in ManagerTypes : ListByType(planet_type)
    \/ Return

Spec == Init /\ [][Next]_vars

\* ------------------------------------------------------------------ claims

\* The seed dictionary the running command is about to process.
Processing ==
    IF pc = "sun" THEN sun_data
    ELSE get_enhanced_planetary_data(run.include_moons, run.include_rings)[run.idx]

\* The row carries the values of the seed dictionary in every seeded column.
Carries(row, data) == \A f \in DataFields : row[f] = data[f]

\* C1: every upsert step of populate that completes follows the policy: no
\* row of that name before - a row carrying the canonical values is inserted
\* and nothing else changes; a row before and update_existing - that row
\* carries every canonical value afterwards; a row before and not
\* update_existing - the table is exactly as it was.
C1_UpsertPolicy ==
    [][ (pc \in {"planets", "sun"} /\ pc' # "idle") =>
          LET old == ByName(db, Processing.name)
              new == ByName(db', Processing.name)
          IN  /\ old = {} =>
                    /\ Cardinality(new) = 1
                    /\ \A r \in new : Carries(r, Processing)
                    /\ db' \ new = db
              /\ (old # {} /\ run.update_existing) =>
                    /\ Cardinality(new) = 1
                    /\ \A r \in new : Carries(r, Processing)
                    /\ \A r \in new, o \in old : r.id = o.id
                    /\ db' \ new = db \ old
              /\ (old # {} /\ ~run.update_existing) => db' = db
      ]_vars

\* A run overwrote an Earth row that had been stored earlier.
C1_Witness ==
    /\ last.op = "get_or_create"
    /\ last.action = "Updated"
    /\ last.name = "Earth"
    /\ \E r \in db : /\ r.name = "Earth"
                     /\ r.updated_at > r.created_at
                     /\ Carries(r, get_enhanced_planetary_data(
                                       run.include_moons, run.include_rings)[3])

\* The step belongs to a run that repeats the options of the run finished
\* just before it, with neither --clear nor --update-existing.
RepeatsWithoutUpdate(r) ==
    /\ r.prior.valid
    /\ r.prior.options = Options(r)
    /\ ~r.update_existing
    /\ ~r.clear

\* C2: a run that repeats the options of the run finished just before it,
\* update_existing false (and no clear), changes no row at any of its steps,
\* creates nothing, and ends with the row count the first run ended with.
C2_SecondRunIsNoOp ==
    [][ /\ (pc = "idle" /\ pc' # "idle" /\ RepeatsWithoutUpdate(run')) =>
               db' = db
        /\ (pc # "idle" /\ RepeatsWithoutUpdate(run)) =>
               /\ db' = db
               /\ nextId' = nextId
               /\ pc' # "idle" => (run'.created_count = 0 /\ ~run'.sun_created)
               /\ pc' = "idle" =>
                      /\ prev'.created_count = 0
                      /\ ~prev'.sun_created
                      /\ prev'.total_planets = run.prior.total_planets
                      /\ prev'.error = run.prior.error
      ]_vars

\* Two successful runs with the same options, the second one a no-op on the
\* ten rows the first one created.
C2_Witness ==
    /\ pc = "idle"
    /\ prev.valid /\ prev.prior_valid
    /\ prev.options = prev.prior_options
    /\ ~prev.options.update_existing /\ ~prev.options.clear
    /\ prev.error = ""
    /\ prev.total_planets = 10
    /\ Cardinality(db) = 10

\* C3: when a run with clear is directly followed by another run, that run
\* succeeds and the table then holds exactly the ten canonical names, one row
\* each.
C3_ClearThenPopulate ==
    (pc = "idle" /\ prev.valid /\ prev.prior_valid /\ prev.prior_options.clear) =>
        /\ prev.error = ""
        /\ Cardinality(db) = 10
        /\ { r.name : r \in db } = CanonicalNames

\* A run without clear has followed a run with clear that deleted a record
\* the command does not seed; ten rows are stored.
C3_Witness ==
    /\ pc = "idle"
    /\ prev.valid /\ prev.prior_valid
    /\ prev.prior_options.clear /\ ~prev.options.clear
    /\ adminOps = 1
    /\ nextId > 11
    /\ Cardinality(db) = 10

has_moons_consistent(r) == r.has_moons = (r.moon_count > 0)

\* C4: no step of a populate run (with any flags) takes a table in which
\* every row has has_moons = (moon_count > 0) to one in which some row has
\* not.
C4_MoonFlagPreserved ==
    [][ ((pc # "idle" \/ pc' # "idle")
            /\ \A r \in db : has_moons_consistent(r))
          => \A r \in db' : has_moons_consistent(r)
      ]_vars

\* A run has inserted and another has overwritten bodies with moons, and
\* every row is consistent.
C4_Witness ==
    /\ pc = "idle"
    /\ prev.valid
    /\ prev.updated_count > 0
    /\ \E r \in db : r.has_moons /\ r.moon_count > 0
    /\ \E r \in db : ~r.has_moons /\ r.moon_count = 0
    /\ \A r \in db : has_moons_consistent(r)

\* C5: in every reachable state no two rows share a name and no two rows
\* share a display_order (nor an id).
C5_NameAndOrderUnique ==
    \A r, q \in db :
        r # q => /\ r.name # q.name
                 /\ r.display_order # q.display_order
                 /\ r.id # q.id

\* A run failed part-way on a display_order held by a non-seeded record and
\* left a partial catalog.
C5_Witness ==
    /\ pc = "idle"
    /\ last.op = "handle"
    /\ last.raised = "CommandError"
    /\ last.at = "Earth"
    /\ \E r \in db : r.name = "Ceres" /\ r.display_order = 3
    /\ ByName(db, "Mercury") # {}

\* The serialized body repeats the stored value of every seeded column that
\* to_dict has a key for (all but is_active).
Serializes(entry, row) ==
    /\ entry.id = row.id
    /\ \A f \in DataFields \ {"is_active"} : entry[f] = row[f]

\* C6: the list endpoint answers 200 with exactly the rows whose is_active
\* is true, each once, in strictly ascending display_order, every entry
\* carrying its row's stored values, and count is the length of planets.
C6_ListActive ==
    reply.op = "planets_api" =>
        LET data == reply.response.data
            planets == data.planets
            active == { r \in db : r.is_active }
        IN  /\ reply.response.status = 200
            /\ data.success
            /\ data.count = Len(planets)
            /\ Len(planets) = Cardinality(active)
            /\ { planets[i].id : i \in 1..Len(planets) } = { r.id : r \in active }
            /\ \A i \in 1..Len(planets) :
                   \E r \in active : Serializes(planets[i], r)
            /\ \A i \in 1..Len(planets) - 1 :
                   planets[i].display_order < planets[i + 1].display_order

\* The list was served while an inactive row was stored and left out.
C6_Witness ==
    /\ reply.op = "planets_api"
    /\ reply.response.data.count >= 2
    /\ \E r \in db : ~r.is_active
    /\ reply.response.data.count < Cardinality(db)

\* C7: the detail endpoint answers 404 with the envelope {error: true,
\* message} whenever no row has the id or the row with the id is inactive,
\* and answers 200 only for an active row with that id, whose data it returns.
C7_DetailNotFound ==
    reply.op = "planet_detail_api" =>
        LET active == { r \in db : r.id = reply.planet_id /\ r.is_active }
            response == reply.response
        IN  /\ active = {} =>
                   /\ response.status = 404
                   /\ response.data.error = TRUE
                   /\ response.data.message = "Planet not found"
            /\ response.status = 200 =>
                   /\ active # {}
                   /\ response.data.success
                   /\ \A r \in active : Serializes(response.data.planet, r)

\* The id of a stored but inactive row was requested and answered 404.
C7_Witness ==
    /\ reply.op = "planet_detail_api"
    /\ reply.response.status = 404
    /\ \E r \in db : r.id = reply.planet_id /\ ~r.is_active

Ids(rows) == { r.id : r \in rows }

\* C8: every step keeps every stored id, except the start of a command run
\* with clear.
C8_NoHardDelete ==
    [][ \/ Ids(db) \subseteq Ids(db')
        \/ (pc = "idle" /\ pc' = "planets" /\ run'.clear)
      ]_vars

\* Rows were deactivated by the bulk action and are all still stored.
C8_Witness ==
    /\ last.op = "deactivate_planets"
    /\ last.updated >= 1
    /\ \E r \in db : ~r.is_active
    /\ Cardinality(db) = 10

\* The upsert of the seed dictionary on the current table must fail: its
\* display_order is held by a row with another name, and the step is to
\* insert it or to overwrite the row of its name.
StepClashes ==
    /\ pc \in {"planets", "sun"}
    /\ \E r \in db : /\ r.display_order = Processing.display_order
                     /\ r.name # Processing.name
    /\ (ByName(db, Processing.name) = {} \/ run.update_existing)

\* C9: an upsert step that clashes ends the run there: the command is over
\* with exactly one CommandError raised, nothing is written or rolled back
\* by the failing step, and the rows the run wrote before it are still
\* stored.
C9_AbortKeepsPartialWrites ==
    [][ StepClashes =>
          /\ pc' = "idle"
          /\ run' = NoRun
          /\ last'.op = "handle"
          /\ last'.raised = "CommandError"
          /\ last'.errors = 1
          /\ db' = db
          /\ prev'.error = "CommandError"
          /\ prev'.created_count = run.created_count
          /\ prev'.updated_count = run.updated_count
          /\ prev'.total_planets = Cardinality(db)
      ]_vars

\* A run stopped at Earth with a CommandError: Mercury and Venus, inserted
\* by it, are stored, Earth and everything after it are not.
C9_Witness ==
    /\ pc = "idle"
    /\ last.op = "handle"
    /\ last.raised = "CommandError"
    /\ last.at = "Earth"
    /\ prev.created_count = 2
    /\ \A n \in {"Mercury", "Venus"} : ByName(db, n) # {}
    /\ \A n \in {"Earth", "Mars", "Pluto", "Sun"} : ByName(db, n) = {}

HexDigits ==
    { "0", "1", "2", "3", "4", "5", "6", "7", "8", "9",
      "A", "B", "C", "D", "E", "F", "a", "b", "c", "d", "e", "f" }

\* The record breaks an invariant of the data model of section 3.
BreaksInvariant(r, rows) ==
    \/ \E q \in rows : q # r /\ (q.name = r.name \/ q.display_order = r.display_order)
    \/ r.planet_type \notin {"terrestrial", "gas_giant", "ice_giant", "dwarf_planet"}
    \/ r.has_moons # (r.moon_count > 0)
    \/ r.moon_count < 0
    \/ r.diameter <= 0
    \/ (~r.mass.null /\ r.mass.m <= 0)
    \/ r.albedo < 0 \/ r.albedo > 1000
    \/ r.distance_from_sun < 100
    \/ (r.orbital_period <= 0 /\ r.name # "Sun")
    \/ r.orbital_eccentricity < 0 \/ r.orbital_eccentricity > 1000
    \/ r.rotation_period = 0
    \/ r.axial_tilt < 0 \/ r.axial_tilt > 180000
    \/ ~( /\ Len(r.color_hex) = 7
          /\ r.color_hex[1] = "#"
          /\ \A i \in 2..7 : r.color_hex[i] \in HexDigits )

FailsValidateCheck(r) ==
    \/ r.name = ""
    \/ r.distance_from_sun < 0
    \/ r.diameter <= 0
    \/ (r.orbital_period <= 0 /\ r.name # "Sun")
    \/ r.has_moons # (r.moon_count > 0)
    \/ Len(r.color_hex) # 7
    \/ r.color_hex[1] # "#"

ReadStep == (reply = NoReply /\ reply' # NoReply) \/ pc = "export"

\* C11: a read operation (listActive, listByType, detail, systemInfo,
\* validate, export), whatever it answers, leaves the set of stored rows and
\* every field of every row as they were.
C11_ReadsSideEffectFree ==
    [][ ReadStep => (db' = db /\ nextId' = nextId) ]_vars

\* The detail view answered 404 for the id of a stored, inactive row.
C11_Witness ==
    /\ reply.op = "planet_detail_api"
    /\ reply.response.status = 404
    /\ \E r \in db : r.id = reply.planet_id /\ ~r.is_active
    /\ Cardinality(db) = 10

\* C12: the export step never ends the run, whether the file is written or
\* not, and changes neither the table nor the counts; after a failed export
\* the summary is produced with the counts of the run and no CommandError.
C12_ExportFailureNonFatal ==
    [][ /\ pc = "export" =>
              /\ pc' = "summary"
              /\ db' = db
              /\ nextId' = nextId
              /\ run' = run
        /\ (pc = "summary" /\ last.op = "export" /\ last.failed) =>
              /\ pc' = "idle"
              /\ db' = db
              /\ last'.op = "handle"
              /\ last'.raised = ""
              /\ last'.errors = 0
              /\ last'.created_count = run.created_count
              /\ last'.updated_count = run.updated_count
              /\ last'.sun_created = run.sun_created
              /\ last'.total_planets = Cardinality(db)
              /\ prev'.error = ""
      ]_vars

\* The export of a run that inserted the ten bodies has failed, the failure
\* is reported and the run is about to print its summary.
C12_Witness ==
    /\ pc = "summary"
    /\ last.op = "export"
    /\ last.failed
    /\ last.file = NoFile
    /\ run.created_count = 9
    /\ run.sun_created
    /\ Cardinality(db) = 10

\* A command run has just written its export file.
Exported == pc = "summary" /\ last.op = "export" /\ ~last.failed

\* The entry of the exported file gives back the stored row: it has every
\* column of the row, the id included, with the stored value.
Reproduces(entry, row) ==
    \A f \in DOMAIN row : f \in DOMAIN entry /\ entry[f] = row[f]

\* C13 as stated: reloading the exported file reproduces the stored records,
\* each with every stored field (the mass and the identity included).
C13_RoundTrip ==
    Exported =>
        /\ Len(last.file.solar_system) = Cardinality(db)
        /\ \A r \in db : \E i \in 1..Len(last.file.solar_system) :
               Reproduces(last.file.solar_system[i], r)

\* C14: the exported file has one entry for every stored row, active or
\* not, and no other entry; the entries are in ascending display_order; and
\* metadata.total_objects is the number of entries and of stored rows.
C14_ExportAllOrdered ==
    Exported =>
        LET entries == last.file.solar_system
        IN  /\ \A r \in db :
                   Cardinality({ i \in 1..Len(entries) :
                                   /\ entries[i].name = r.name
                                   /\ entries[i].display_order = r.display_order
                                   /\ entries[i].is_active = r.is_active
                                   /\ entries[i].updated_at = r.updated_at }) = 1
            /\ \A i \in 1..Len(entries) : ByName(db, entries[i].name) # {}
            /\ \A i, j \in 1..Len(entries) :
                   i < j => entries[i].display_order < entries[j].display_order
            /\ last.file.metadata.total_objects = Len(entries)
            /\ last.file.metadata.total_objects = Cardinality(db)

\* An export of ten rows, one of them inactive, with the Sun (inserted last,
\* display_order 0) as the first entry.
C14_Witness ==
    /\ Exported
    /\ Cardinality(db) = 10
    /\ \E r \in db : ~r.is_active
    /\ last.file.solar_system[1].name = "Sun"
    /\ last.file.metadata.total_objects = 10

\* The ratio of two stored masses, rounded to hundredths.
MassRatio(mass, earth_mass) ==
    LET k == mass.e + 2 - earth_mass.e
    IN  IF k >= 0 THEN RoundDiv(mass.m * Pow10(k), earth_mass.m)
        ELSE RoundDiv(mass.m, earth_mass.m * Pow10(-k))

\* The decimal is the number of hundredths h.
IsHundredths(dec, h) ==
    /\ ~dec.null
    /\ IF dec.e + 2 >= 0 THEN dec.m * Pow10(dec.e + 2) = h
       ELSE dec.m = h * Pow10(-(dec.e + 2))

\* The detail view has answered 200 for a stored row.
DetailServed == reply.op = "planet_detail_api" /\ reply.response.status = 200

\* The row the detail view was asked for.
Requested == CHOOSE r \in db : r.id = reply.planet_id

\* C15 as stated: comparison_to_earth is empty exactly when no row is named
\* Earth; otherwise its five entries are the ratios of the body's diameter,
\* mass, distance, orbital period and rotation-period magnitude to Earth's,
\* rounded to two decimals.
C15_EarthComparison ==
    DetailServed =>
        LET cmp == reply.response.data.comparison_to_earth
            planet == Requested
        IN  /\ cmp.empty = (ByName(db, "Earth") = {})
            /\ ~cmp.empty =>
                  LET earth == CHOOSE r \in ByName(db, "Earth") : TRUE
                  IN  /\ cmp.size_ratio =
                             RoundDiv(planet.diameter * 100, earth.diameter)
                      /\ cmp.distance_ratio =
                             RoundDiv(planet.distance_from_sun * 100,
                                      earth.distance_from_sun)
                      /\ cmp.year_length_ratio =
                             RoundDiv(planet.orbital_period * 100,
                                      earth.orbital_period)
                      /\ cmp.day_length_ratio =
                             RoundDiv(Abs(planet.rotation_period) * 100,
                                      Abs(earth.rotation_period))
                      /\ (~planet.mass.null /\ Truthy(earth.mass)) =>
                             /\ ~cmp.mass_ratio.unknown
                             /\ IsHundredths(cmp.mass_ratio.value,
                                             MassRatio(planet.mass, earth.mass))

\* C16 as stated: the comparison of the Earth row with itself is 1.0 in all
\* five entries, whatever values the row stores.
C16_EarthToItself ==
    (DetailServed /\ Requested.name = "Earth") =>
        LET cmp == reply.response.data.comparison_to_earth
        IN  /\ ~cmp.empty
            /\ cmp.size_ratio = 100
            /\ cmp.distance_ratio = 100
            /\ cmp.year_length_ratio = 100
            /\ cmp.day_length_ratio = 100
            /\ ~cmp.mass_ratio.unknown
            /\ IsHundredths(cmp.mass_ratio.value, 100)

\* The rows systemInfo is about: active and not named Sun.
Counted(rows) == { r \in rows : r.is_active /\ r.name # "Sun" }

\* C17: the statistics of systemInfo are taken over exactly the active rows
\* not named Sun: their number, the number of each of the three planet
\* types, the number of those flagged is_dwarf_planet, and the sum of their
\* moon_count.
C17_SystemInfoStatistics ==
    reply.op = "system_info_api" =>
        LET info == reply.response.data.system_info
            counted == Counted(db)
        IN  /\ reply.response.status = 200
            /\ info.total_planets = Cardinality(counted)
            /\ info.planet_types.terrestrial =
                   Cardinality({ r \in counted : r.planet_type = "terrestrial" })
            /\ info.planet_types.gas_giants =
                   Cardinality({ r \in counted : r.planet_type = "gas_giant" })
            /\ info.planet_types.ice_giants =
                   Cardinality({ r \in counted : r.planet_type = "ice_giant" })
            /\ info.planet_types.dwarf_planets =
                   Cardinality({ r \in counted : r.is_dwarf_planet })
            /\ info.total_moons = SumMoons(counted)

\* systemInfo answered for the ten seeded rows with Earth inactive: eight
\* bodies, three of them terrestrial, and Earth's moon is not in the sum.
C17_Witness ==
    /\ reply.op = "system_info_api"
    /\ Cardinality(db) = 10
    /\ \E r \in db : r.name = "Earth" /\ ~r.is_active
    /\ \E r \in db : r.name = "Sun" /\ r.is_active
    /\ reply.response.data.system_info.total_planets = 8
    /\ reply.response.data.system_info.planet_types.terrestrial = 3
    /\ reply.response.data.system_info.total_moons = 292

\* The canonical rows the run that is about to print its summary inserted,
\* and the ones it overwrote.
Inserted == { r \in db : r.name \in CanonicalNames /\ r.id >= run.first_id }

Overwritten ==
    { r \in db : /\ r.name \in CanonicalNames
                 /\ r.id < run.first_id
                 /\ r.updated_at >= run.started }

\* C18 as stated: the summary of a successful run reports as created the
\* number of canonical records (the Sun included) the run inserted, as
\* updated the number it overwrote, and as total the number of stored rows.
C18_Original ==
    [][ pc = "summary" =>
          /\ last'.created_count = Cardinality(Inserted)
          /\ last'.updated_count = Cardinality(Overwritten)
          /\ last'.total_planets = Cardinality(db')
      ]_vars

\* C18 amended: the created and updated counts are about the nine planet
\* records only; the Sun is reported by sun_created, true exactly when the
\* run inserted or overwrote it; the total is the number of stored rows.
C18_PopulateCounts ==
    [][ pc = "summary" =>
          /\ last'.created_count =
                 Cardinality({ r \in Inserted : r.name # "Sun" })
          /\ last'.updated_count =
                 Cardinality({ r \in Overwritten : r.name # "Sun" })
          /\ last'.sun_created =
                 (\E r \in Inserted \cup Overwritten : r.name = "Sun")
          /\ last'.total_planets = Cardinality(db')
          /\ db' = db
      ]_vars

\* A run with update_existing has overwritten the nine planets and the Sun
\* of a table that also holds a row it does not seed.
C18_Witness ==
    /\ pc = "idle"
    /\ last.op = "handle"
    /\ last.raised = ""
    /\ last.created_count = 0
    /\ last.updated_count = 9
    /\ last.sun_created
    /\ last.total_planets = 11
    /\ Cardinality(db) = 11

\* C19 as stated: a step that changes a stored field of a record sets the
\* record's updated_at to the time of the step, and no step changes the
\* created_at of a record.
C19_AuditStamps ==
    [][ \A r \in db, q \in db' :
            r.id = q.id =>
                /\ q.created_at = r.created_at
                /\ (\E f \in DataFields : q[f] # r[f]) => q.updated_at = clock
      ]_vars

\* The invariants of section 3 that C20 lists, for one record.
SeedInvariants(r) ==
    /\ r.distance_from_sun >= 100
    /\ r.diameter > 0
    /\ r.albedo >= 0 /\ r.albedo <= 1000
    /\ r.orbital_eccentricity >= 0 /\ r.orbital_eccentricity <= 1000
    /\ r.axial_tilt >= 0 /\ r.axial_tilt <= 180000
    /\ r.rotation_period # 0
    /\ r.planet_type \in {"terrestrial", "gas_giant", "ice_giant", "dwarf_planet"}
    /\ Len(r.color_hex) = 7
    /\ r.color_hex[1] = "#"
    /\ \A i \in 2..7 : r.color_hex[i] \in HexDigits
    /\ (r.orbital_period > 0 \/ r.name = "Sun")

\* C20 as stated: when a run with clear has finished, the ten stored records
\* all satisfy the listed invariants, the Sun being exempt from the positive
\* orbital period only.
C20_SeededInvariants ==
    (pc = "idle" /\ prev.valid /\ prev.options.clear) =>
        /\ prev.error = ""
        /\ Cardinality(db) = 10
        /\ \A r \in db : SeedInvariants(r)

\* C21: get_terrestrial_planets / get_gas_giants return exactly the active
\* rows of that planet_type, each once, in ascending display_order, which
\* is the order they have in listActive.
C21_ListByType ==
    reply.op = "list_by_type" =>
        LET planets == reply.planets
            active == get_ordered_planets(db)
        IN  /\ { planets[i] : i \in 1..Len(planets) } =
                   { r \in db : r.is_active /\ r.planet_type = reply.planet_type }
            /\ \A i, j \in 1..Len(planets) :
                   i < j => planets[i].display_order < planets[j].display_order
            /\ \A i, j \in 1..Len(planets) :
                   i < j => \E k, l \in 1..Len(active) :
                                k < l /\ active[k] = planets[i] /\ active[l] = planets[j]

\* The terrestrial list of the seeded table with Earth inactive: the Sun
\* (stored as terrestrial), Mercury, Venus and Mars.
C21_Witness ==
    /\ reply.op = "list_by_type"
    /\ reply.planet_type = "terrestrial"
    /\ \E r \in db : r.name = "Earth" /\ ~r.is_active
    /\ Len(reply.planets) = 4
    /\ reply.planets[1].name = "Sun"
    /\ reply.planets[4].name = "Mars"

\* C22: for every stored record and scale factor, the scaled size is
\* max(diameter / 2 / factor, 0.1) - the radius over the factor when that is
\* at least 0.1, and 0.1 otherwise - and the scaled distance is
\* max(distance * factor, 1.0); neither is ever below its floor.
C22_RenderingFloors ==
    reply.op = "render" =>
        LET planet == CHOOSE r \in db : r.id = reply.planet_id
            size == reply.scaled_size
        IN  /\ size.den = 10 * reply.size_factor
            /\ 10 * size.num >= size.den
            /\ IF 5 * planet.diameter >= reply.size_factor
               THEN size.num = 5 * planet.diameter
               ELSE 10 * size.num = size.den
            /\ reply.scaled_distance >= 1000
            /\ IF planet.distance_from_sun * reply.distance_factor >= 1000
               THEN reply.scaled_distance =
                        planet.distance_from_sun * reply.distance_factor
               ELSE reply.scaled_distance = 1000
            /\ (planet.diameter = 12756 /\ reply.size_factor = 1000) =>
                   (size.num = 63780 /\ size.den = 10000)

\* Mercury at the factors 100000 and 1: both transforms are at their floor,
\* 0.1 and 1.0.
C22_Witness ==
    /\ reply.op = "render"
    /\ \E r \in db : r.id = reply.planet_id /\ r.name = "Mercury"
    /\ reply.size_factor = 100000
    /\ reply.distance_factor = 1
    /\ reply.scaled_size = [ num |-> 100000, den |-> 1000000 ]
    /\ reply.scaled_distance = 1000

\* The names of the entries of an exported file.
FileNames(file) == { file.solar_system[i].name : i \in 1..Len(file.solar_system) }

\* C23: the steps of a run come in a fixed order.  The start of the run
\* deletes every row when clear is set (and writes no file), before any
\* insert; the loop then upserts the bodies of display_order 1, 2, .. 9, one
\* a step, touching no other row; the Sun is upserted when all nine are
\* stored; the export comes only after the Sun upsert, so an exported file
\* has all ten canonical names.
C23_StepOrder ==
    [][ /\ (pc = "idle" /\ pc' = "planets") =>
              /\ db' = (IF run'.clear THEN {} ELSE db)
              /\ run'.idx = 1
              /\ last'.op = "clear"
        /\ pc = "planets" =>
              /\ Processing.display_order = run.idx
              /\ \A r \in (db' \ db) \cup (db \ db') : r.name = Processing.name
              /\ pc' \in {"planets", "sun", "idle"}
              /\ pc' = "planets" => run'.idx = run.idx + 1
              /\ pc' = "sun" => run.idx = 9
              /\ last'.op # "export"
        /\ pc = "sun" =>
              /\ \A n \in CanonicalNames \ {"Sun"} : ByName(db, n) # {}
              /\ \A r \in (db' \ db) \cup (db \ db') : r.name = "Sun"
              /\ pc' \in {"export", "idle"}
              /\ last'.op # "export"
        /\ pc = "export" =>
              /\ \A n \in CanonicalNames : ByName(db, n) # {}
              /\ (last'.op = "export" /\ ~last'.failed) =>
                     CanonicalNames \subseteq FileNames(last'.file)
        /\ pc \notin {"export", "summary"} => last'.op # "export"
      ]_vars

\* A second run, with clear, has written its file: ten entries, the ten
\* canonical names, every one of them inserted by this run.
C23_Witness ==
    /\ Exported
    /\ run.clear
    /\ runs = 2
    /\ run.first_id > 10
    /\ FileNames(last.file) = CanonicalNames
    /\ \A i \in 1..Len(last.file.solar_system) :
           last.file.solar_system[i].created_at >= run.started

\* The ten seed dictionaries of the running command.
SeedData(r) ==
    { get_enhanced_planetary_data(r.include_moons, r.include_rings)[i] : i \in 1..9 }
        \cup { sun_data }

\* C24: when a run with update_existing ends with its summary, each of the
\* ten canonical names is stored once and carries every canonical value,
\* is_active = TRUE included; and no step of a run without update_existing
\* changes a row that is inactive.
C24_UpdateExistingReactivates ==
    [][ /\ (pc = "summary" /\ run.update_existing) =>
              \A data \in SeedData(run) :
                  /\ Cardinality(ByName(db', data.name)) = 1
                  /\ \A r \in ByName(db', data.name) : Carries(r, data) /\ r.is_active
        /\ (pc # "idle" /\ ~run.update_existing) =>
              \A r \in db : ~r.is_active => r \in db'
      ]_vars

\* A run with update_existing has just overwritten Earth, which was
\* inactive and is active again.
C24_Witness ==
    /\ pc = "planets"
    /\ run.update_existing
    /\ last.op = "get_or_create"
    /\ last.name = "Earth"
    /\ last.action = "Updated"
    /\ ~last.was_active
    /\ \E r \in db : r.name = "Earth" /\ r.is_active

BulkActions == {"activate_planets", "deactivate_planets", "reset_to_defaults"}

\* C25: a bulk action sets is_active - FALSE for deactivate_planets, TRUE
\* for activate_planets and reset_to_defaults - on exactly the selected rows
\* and changes nothing else; and whatever was done before, listActive has
\* exactly the active rows and the detail view answers 404 exactly for the
\* ids of no active row.
C25_BulkActionsFrame ==
    [][ /\ (adminOps' = adminOps + 1 /\ last'.op \in BulkActions) =>
              /\ Ids(db') = Ids(db)
              /\ Cardinality(db') = Cardinality(db)
              /\ \A r \in db : \E q \in db' :
                     /\ q.id = r.id
                     /\ q = [r EXCEPT !.is_active = q.is_active]
                     /\ r.id \in last'.selected =>
                            q.is_active = (last'.op # "deactivate_planets")
                     /\ r.id \notin last'.selected => q = r
        /\ (reply = NoReply /\ reply'.op = "planets_api") =>
              LET planets == reply'.response.data.planets
              IN  { planets[i].id : i \in 1..Len(planets) } =
                      Ids({ r \in db : r.is_active })
        /\ (reply = NoReply /\ reply'.op = "planet_detail_api") =>
              (reply'.response.status = 404) =
                  (\A r \in db : r.id = reply'.planet_id => ~r.is_active)
      ]_vars

\* Earth, inactive when the session began, has been activated again and the
\* detail view serves it.
C25_Witness ==
    /\ last.op = "activate_planets"
    /\ 3 \in last.selected
    /\ adminOps = 1
    /\ reply.op = "planet_detail_api"
    /\ reply.planet_id = 3
    /\ reply.response.status = 200
    /\ \E r \in db : r.id = 3 /\ r.name = "Earth" /\ r.is_active
                        /\ r.updated_at = r.created_at

\* C26: a save through the admin form that clashes with another row's
\* display_order stores the highest display_order in use plus one; a save
\* that does not clash stores the submitted display_order; either way the
\* saved row's display_order differs from that of every other row, and the
\* save is refused only for a name that another row holds.
C26_SaveModelDisplayOrder ==
    [][ /\ (adminOps' = adminOps + 1 /\ last'.op = "save_model"
                                      /\ last'.raised # "") =>
            \E r \in db : r.id # last'.pk /\ r.name = last'.name
        /\ (adminOps' = adminOps + 1 /\ last'.op = "save_model"
                                      /\ last'.raised = "") =>
            \E saved \in db' :
                /\ saved.id = last'.pk
                /\ saved.display_order =
                       IF last'.reordered THEN MaxOrderOr0(db) + 1
                       ELSE last'.display_order
                /\ last'.reordered =
                       \E r \in db : /\ r.id # saved.id
                                      /\ r.display_order = last'.display_order
                /\ \A r \in db' :
                       r.id # saved.id => r.display_order # saved.display_order
      ]_vars

\* A row was added with the display_order of an existing row and stored
\* after the last one.
C26_Witness ==
    /\ last.op = "save_model"
    /\ last.raised = ""
    /\ last.reordered
    /\ last.display_order = 3
    /\ \E r \in db : r.id = last.pk /\ r.name = "Ceres" /\ r.display_order = 10
    /\ \E r \in db : r.name = "Earth" /\ r.display_order = 3

\* The catalog state that differs from rows only in that its inactive
\* records are absent.
WithoutInactive(rows) == { r \in rows : r.is_active }

\* C27: inactive records are invisible to the JSON API - each of the three
\* endpoints answers what it would answer were the inactive records absent.
C27_InactiveInvisible ==
    /\ reply.op = "planets_api" =>
           reply.response = PlanetsAPIView_get(WithoutInactive(db))
    /\ reply.op = "planet_detail_api" =>
           reply.response =
               PlanetDetailAPIView_get(WithoutInactive(db), reply.planet_id)
    /\ reply.op = "system_info_api" =>
           reply.response = SystemInfoAPIView_get(WithoutInactive(db))

\* C28: in every system-info response the four planet_types counts add up
\* to total_planets.
C28_TypeCountsPartition ==
    reply.op = "system_info_api" =>
        LET info == reply.response.data.system_info
            types == info.planet_types
        IN  types.terrestrial + types.gas_giants + types.ice_giants
                + types.dwarf_planets = info.total_planets

\* C29: system-info asked right after a successful run with --clear reports
\* 9 planets - 4 terrestrial, 2 gas giants, 2 ice giants, 1 dwarf planet -
\* with 293 moons, and the Sun, counted in none of them, as central star.
C29_SystemInfoAfterClear ==
    (reply.op = "system_info_api" /\ prev.valid /\ prev.options.clear
                                  /\ prev.error = "") =>
        LET info == reply.response.data.system_info
        IN  /\ info.total_planets = 9
            /\ info.planet_types.terrestrial = 4
            /\ info.planet_types.gas_giants = 2
            /\ info.planet_types.ice_giants = 2
            /\ info.planet_types.dwarf_planets = 1
            /\ info.total_moons = 293
            /\ info.central_star # NoStar
            /\ info.central_star.name = "Sun"
            /\ info.central_star.planet_type = "terrestrial"
            /\ info.central_star.display_order = 0

\* The run with --clear replaced a table that had rows, and system-info was
\* asked after it.
C29_Witness ==
    /\ reply.op = "system_info_api"
    /\ prev.valid
    /\ prev.options.clear
    /\ prev.error = ""
    /\ prev.prior_valid
    /\ prev.prior_total > 0
    /\ reply.response.data.system_info.total_planets = 9

\* The dictionaries populate_planets seeds.
BasicSeedData == { get_planetary_data[i] : i \in 1..9 } \cup { create_sun_data }

\* C30: populate_planets has no skip policy - when a run ends without an
\* error, each of the ten canonical names is the name of exactly one row and
\* that row carries every value of the command's dictionary, is_active
\* included; each step that finds the row overwrites it; and no step of a
\* run without --clear touches a row of another name.
C30_BasicOverwrites ==
    [][ /\ (pc = "basic_sun" /\ pc' = "idle" /\ last'.raised = "") =>
              \A data \in BasicSeedData :
                  /\ Cardinality(ByName(db', data.name)) = 1
                  /\ \A r \in ByName(db', data.name) : Carries(r, data)
        /\ (pc = "basic_planets" /\ pc' # "idle") =>
              \A r \in ByName(db', last'.name) :
                  Carries(r, get_planetary_data[run.idx])
        /\ (pc \in {"basic_planets", "basic_sun"}
                \/ (pc = "idle" /\ pc' = "basic_planets" /\ ~run'.clear)) =>
              \A r \in db : r.name \notin CanonicalNames => r \in db'
        /\ (pc = "idle" /\ pc' = "basic_planets" /\ run'.clear) => db' = {}
      ]_vars

\* A run without --clear has ended without an error on a seeded table the
\* admin had added Ceres to: Earth, a row older than the run, carries the
\* command's values, and Ceres is as it was.
C30_Witness ==
    /\ pc = "idle"
    /\ last.op = "populate_planets"
    /\ last.raised = ""
    /\ ~last.cleared
    /\ \E r \in db : /\ r.name = "Earth"
                      /\ r.updated_at > r.created_at
                      /\ Carries(r, get_planetary_data[3])
    /\ \E r \in db : r.name = "Ceres" /\ r.updated_at = r.created_at

====
